---- MODULE Spec2Model ----
(***************************************************************************)
(* morbyd: attaching to containers and executed commands, pumping their    *)
(* streams, and waiting/polling on the resulting handles.                  *)
(*                                                                         *)
(* One behaviour is one call of Session.Run (kind = "run") or of           *)
(* Container.Exec (kind = "exec"), the goroutines that call spawns, the    *)
(* engine behind the moby.Client interface, and callers of Wait and PID on *)
(* the handle; or the life of one session (kind = "session"): NewSession,  *)
(* Session.Close and the auto-cleaning both run.  The engine is the        *)
(* environment: each of its calls may fail, and its inspect results are    *)
(* whatever the interface allows.                                          *)
(***************************************************************************)
EXTENDS Integers, Sequences, FiniteSets, TLC

\* bounds of the model
MaxOut == 2     \* chunks the process writes before it exits
MaxIn == 1      \* chunks the input reader yields
MaxPoll == 3    \* inspect calls of one PID call that are counted
MaxOpts == 2    \* option functions passed to Run or Exec
MaxCntrs == 2   \* containers carrying the auto-cleaning label
MaxNets == 2    \* networks carrying the auto-cleaning label

\* the PID the engine reports
ThePid == 42
\* the exit code the engine reports
TheExitCode == 42

STDOUT == 1
STDERR == 2
RAW == 0

VARIABLES
    kind,        \* "run": Session.Run, "exec": Container.Exec,
                 \* "session": NewSession and Session.Close
    label,       \* the session's AutoCleaningLabel is not ""
    copts,       \* resolved options: Tty, In (reader supplied), Err ("nil", "same", "distinct")
    optFail,     \* optFail[i]: the i-th option function passed returns an error
    inEnds,      \* the input reader reaches EOF once it is drained
    nOut,        \* number of chunks the process writes before it exits
    poller,      \* a caller polls the handle's PID
    pc,          \* position of the Run/Exec call
    applied,     \* number of option functions the call has invoked
    err,         \* the call's named result err
    cntr,        \* the call returned a handle (*Container or *ExecSession)
    calls,       \* engine methods invoked by the call so far
    exists,      \* the created container exists on the engine
    removes,     \* number of ContainerRemove calls issued
    removeErr,   \* what ContainerRemove returned: "none" before the call, "nil", "error"
    attachStdin, \* Stdin flag of the attach request: "none" before the request
    attachOut,   \* the output streams the attach request asks for
    proc,        \* the process: "none", "running", "exited"
    wrote,       \* every chunk the process wrote, in order
    stream,      \* chunks in flight on the connection's read side
    eof,         \* the engine has ended the connection's read side
    attachResp,  \* hijacked connection: "nil", "open", "closed"
    connCloses,  \* number of attachResp.Close() calls
    outpc,       \* output goroutine: "none", "copy", "defer", "signal", "exit"
    inpc,        \* input goroutine: "none", "copy", "exit"
    done,        \* number of close(done) in Run
    stdinDone,   \* number of close(stdinDone) in Exec
    allDone,     \* number of close(allDone) in Exec (ExecSession.done)
    Out,         \* what the output writer received
    Err,         \* what the error writer received
    inLeft,      \* chunks the input reader still yields
    ctxDone,     \* the context passed to Wait and PID is cancelled
    wait,        \* the Wait call
    pid,         \* the PID call
    timer,       \* Sleep's timer: "unset", "armed", "expired"
    watcher,     \* a caller of ExecSession.Done that receives from the channel
    lcntrs,      \* containers on the engine that carry the label
    lnets,       \* networks on the engine that carry the label
    sess,        \* the session: "none", "new", "failed", "open", "closing", "closed"
    ac,          \* the AutoClean call
    rmlog        \* removal calls the latest AutoClean call has made, in order

setup == <<kind, label, copts, optFail, inEnds, nOut, poller>>
callv == <<pc, applied, err, cntr, calls, exists, removes, removeErr, attachStdin, attachOut>>
procv == <<proc, wrote, stream, eof>>
pumpv == <<attachResp, connCloses, outpc, inpc, done, stdinDone, allDone, Out, Err, inLeft>>
userv == <<ctxDone, wait, pid, timer>>
sessv == <<lcntrs, lnets, sess, ac, rmlog>>
vars == <<setup, callv, procv, pumpv, userv, watcher, sessv>>

\* the loops of PID run without a bound: their rounds are counted up to max,
\* and a counter at max stands for max or more
Counted(n, max) == IF n < max THEN n + 1 ELSE n

\* a Wait call: position, whether ctx was cancelled / the completion signal
\* open when it was called, number of inspect calls, whether the latest
\* inspect reported the command running, and its results
IdleWait == [pc |-> "idle", ctx0 |-> FALSE, open0 |-> FALSE, n |-> 0,
             running |-> FALSE, code |-> 0, err |-> "nil"]

\* a PID call: position, whether ctx was cancelled / the completion signal
\* open when it was called, number of inspect calls and of completed sleeps,
\* whether every inspect before the latest reported no PID, whether an inspect
\* before the latest reported a failed container that is restarting, the latest
\* inspect result, Sleep's result, whether Sleep received from timer.C after
\* Stop, and the call's results
IdlePID == [pc |-> "idle", ctx0 |-> FALSE, open0 |-> FALSE, n |-> 0, naps |-> 0,
            clean |-> TRUE, restarted |-> FALSE, insp |-> [Pid |-> 0],
            nap |-> "nil", drained |-> FALSE, pid |-> 0, err |-> "nil"]

\* a caller of Done: position, the channel Done returned, and whether that
\* channel was open then
IdleWatcher == [pc |-> "idle", ch |-> "none", open0 |-> FALSE]

\* an AutoClean call: position, the containers and the networks listed, and
\* the number of loop rounds made over the list at hand
IdleAutoClean == [pc |-> "idle", cntrs |-> <<>>, nets |-> <<>>, i |-> 0]

Init ==
    /\ kind \in {"run", "exec", "session"}
    /\ label \in BOOLEAN
    /\ lcntrs \in SUBSET (1..MaxCntrs)
    /\ lnets \in SUBSET (1..MaxNets)
    \* Run and Exec are called on an open session; what auto-cleaning does is
    \* looked at in the scenarios of its own, which leave Run and Exec aside
    /\ kind # "session" => ~label /\ lcntrs = {} /\ lnets = {}
    /\ sess = IF kind = "session" THEN "none" ELSE "open"
    /\ ac = IdleAutoClean
    /\ rmlog = <<>>
    /\ copts \in [Tty : BOOLEAN, In : BOOLEAN, Err : {"nil", "same", "distinct"}]
    /\ optFail \in [1..MaxOpts -> BOOLEAN]
    /\ inEnds \in BOOLEAN
    /\ inEnds => copts.In
    /\ nOut \in {0, MaxOut}
    /\ poller \in BOOLEAN
    \* the polling scenarios leave the content of the streams aside
    /\ poller => nOut = 0 /\ ~copts.Tty /\ ~copts.In /\ copts.Err = "nil"
                 /\ \A i \in 1..MaxOpts : ~optFail[i]
    /\ kind = "session" =>
          /\ copts = [Tty |-> FALSE, In |-> FALSE, Err |-> "nil"]
          /\ nOut = 0 /\ ~poller /\ \A i \in 1..MaxOpts : ~optFail[i]
    /\ pc = "opts"
    /\ applied = 0
    /\ err = "nil"
    /\ cntr = FALSE
    /\ calls = {}
    /\ exists = (kind = "exec")
    /\ removes = 0
    /\ removeErr = "none"
    /\ attachStdin = "none"
    /\ attachOut = {}
    /\ proc = "none"
    /\ wrote = <<>>
    /\ stream = <<>>
    /\ eof = FALSE
    /\ attachResp = "nil"
    /\ connCloses = 0
    /\ outpc = "none"
    /\ inpc = "none"
    /\ done = 0
    /\ stdinDone = 0
    /\ allDone = 0
    /\ Out = <<>>
    /\ Err = <<>>
    /\ inLeft = MaxIn
    /\ ctxDone = FALSE
    /\ wait = IdleWait
    /\ pid = IdlePID
    /\ timer = "unset"
    /\ watcher = IdleWatcher

(***************************************************************************)
(* Session.Run                                                             *)
(***************************************************************************)

\* the option functions the loop over opts invokes: all of them, or those up
\* to the first that returns an error
Invoked ==
    IF \E i \in 1..MaxOpts : optFail[i]
      THEN CHOOSE i \in 1..MaxOpts : optFail[i] /\ \A j \in 1..(i - 1) : ~optFail[j]
      ELSE MaxOpts

\* RunOptions invoking every option and going on whatever they return
RunOptionsIgnoringError ==
    /\ kind = "run" /\ pc = "opts"
    /\ applied' = MaxOpts
    /\ err' = IF \E i \in 1..MaxOpts : optFail[i] THEN "option" ELSE err
    /\ pc' = "hasimg"
    /\ UNCHANGED <<setup, watcher, sessv, cntr, calls, exists, removes, removeErr, attachStdin, attachOut, procv, pumpv, userv>>

\* for _, opt := range opts { if err := opt(&copts); err != nil { return nil, err } }
RunOptions ==
    /\ kind = "run" /\ pc = "opts"
    /\ applied' = Invoked
    /\ IF optFail[Invoked]
         THEN /\ err' = "option" /\ pc' = "ret"
         ELSE /\ err' = err /\ pc' = "hasimg"
    /\ UNCHANGED <<setup, watcher, sessv, cntr, calls, exists, removes, removeErr, attachStdin, attachOut, procv, pumpv, userv>>

\* s.HasImage, and s.PullImage when the image is not available locally
RunHasImage ==
    /\ kind = "run" /\ pc = "hasimg"
    /\ \E r \in {"error", "yes", "no"} :
         /\ calls' = calls \cup {"ImageInspect"}
         /\ IF r = "error" THEN /\ err' = "hasimage" /\ pc' = "ret"
            ELSE /\ err' = err
                 /\ pc' = IF r = "yes" THEN "create" ELSE "pull"
    /\ UNCHANGED <<setup, watcher, sessv, applied, cntr, exists, removes, removeErr, attachStdin, attachOut, procv, pumpv, userv>>

RunPullImage ==
    /\ kind = "run" /\ pc = "pull"
    /\ \E ok \in BOOLEAN :
         /\ calls' = calls \cup {"ImagePull"}
         /\ IF ok THEN /\ err' = err /\ pc' = "create"
                  ELSE /\ err' = "pull" /\ pc' = "ret"
    /\ UNCHANGED <<setup, watcher, sessv, applied, cntr, exists, removes, removeErr, attachStdin, attachOut, procv, pumpv, userv>>

\* RunCreate with a failed create sent through the deferred removal
RunCreateCleaningUp ==
    /\ kind = "run" /\ pc = "create"
    /\ calls' = calls \cup {"ContainerCreate"}
    /\ \E ok \in BOOLEAN :
         IF ok THEN /\ exists' = TRUE /\ err' = err /\ pc' = "attach"
               ELSE /\ exists' = exists /\ err' = "create" /\ pc' = "defer"
    /\ UNCHANGED <<setup, watcher, sessv, applied, cntr, removes, removeErr, attachStdin, attachOut, procv, pumpv, userv>>

\* s.moby.ContainerCreate; a failure returns before the cleanup is deferred
RunCreate ==
    /\ kind = "run" /\ pc = "create"
    /\ calls' = calls \cup {"ContainerCreate"}
    /\ \E ok \in BOOLEAN :
         IF ok THEN /\ exists' = TRUE /\ err' = err /\ pc' = "attach"
               ELSE /\ exists' = exists /\ err' = "create" /\ pc' = "ret"
    /\ UNCHANGED <<setup, watcher, sessv, applied, cntr, removes, removeErr, attachStdin, attachOut, procv, pumpv, userv>>

\* RunAttach with the attach error ignored
RunAttachIgnoringError ==
    /\ kind = "run" /\ pc = "attach"
    /\ calls' = calls \cup {"ContainerAttach"}
    /\ attachStdin' = copts.In
    /\ attachOut' = {"Stdout", "Stderr"}
    /\ \E ok \in BOOLEAN :
         /\ attachResp' = IF ok THEN "open" ELSE attachResp
         /\ err' = err /\ pc' = "go_out"
    /\ UNCHANGED <<setup, watcher, sessv, applied, cntr, exists, removes, removeErr, procv, connCloses, outpc, inpc,
                   done, stdinDone, allDone, Out, Err, inLeft, userv>>

\* s.moby.ContainerAttach with Stdin: copts.In != nil
RunAttach ==
    /\ kind = "run" /\ pc = "attach"
    /\ calls' = calls \cup {"ContainerAttach"}
    /\ attachStdin' = copts.In
    /\ attachOut' = {"Stdout", "Stderr"}
    /\ \E ok \in BOOLEAN :
         IF ok THEN /\ attachResp' = "open" /\ err' = err /\ pc' = "go_out"
               ELSE /\ attachResp' = attachResp /\ err' = "attach" /\ pc' = "defer"
    /\ UNCHANGED <<setup, watcher, sessv, applied, cntr, exists, removes, removeErr, procv, connCloses, outpc, inpc,
                   done, stdinDone, allDone, Out, Err, inLeft, userv>>

\* done := make(chan struct{}); go func() { ...output... }()
RunGoOutput ==
    /\ kind = "run" /\ pc = "go_out"
    /\ outpc' = "copy"
    /\ pc' = "go_in"
    /\ UNCHANGED <<setup, watcher, sessv, applied, err, cntr, calls, exists, removes, removeErr, attachStdin, attachOut, procv,
                   attachResp, connCloses, inpc, done, stdinDone, allDone, Out, Err,
                   inLeft, userv>>

\* RunGoInput spawning the input goroutine whether or not there is a reader
RunGoInputAlways ==
    /\ kind = "run" /\ pc = "go_in"
    /\ inpc' = "copy" /\ done' = done
    /\ pc' = "start"
    /\ UNCHANGED <<setup, watcher, sessv, applied, err, cntr, calls, exists, removes, removeErr, attachStdin, attachOut, procv,
                   attachResp, connCloses, outpc, stdinDone, allDone, Out, Err,
                   inLeft, userv>>

\* if copts.In != nil { go func() { ...input... }() } else { close(done) }
RunGoInput ==
    /\ kind = "run" /\ pc = "go_in"
    /\ IF copts.In THEN /\ inpc' = "copy" /\ done' = done
                   ELSE /\ inpc' = inpc /\ done' = done + 1
    /\ pc' = "start"
    /\ UNCHANGED <<setup, watcher, sessv, applied, err, cntr, calls, exists, removes, removeErr, attachStdin, attachOut, procv,
                   attachResp, connCloses, outpc, stdinDone, allDone, Out, Err,
                   inLeft, userv>>

\* RunStart with a failure returned past the deferred cleanup
RunStartNoCleanup ==
    /\ kind = "run" /\ pc = "start"
    /\ calls' = calls \cup {"ContainerStart"}
    /\ \E ok \in BOOLEAN :
         IF ok THEN /\ proc' = "running" /\ err' = err /\ pc' = "inspect"
               ELSE /\ proc' = proc /\ err' = "start" /\ pc' = "ret"
    /\ UNCHANGED <<setup, watcher, sessv, applied, cntr, exists, removes, removeErr, attachStdin, attachOut, wrote, stream, eof,
                   pumpv, userv>>

\* s.moby.ContainerStart: on success the engine runs the container's process
RunStart ==
    /\ kind = "run" /\ pc = "start"
    /\ calls' = calls \cup {"ContainerStart"}
    /\ \E ok \in BOOLEAN :
         IF ok THEN /\ proc' = "running" /\ err' = err /\ pc' = "inspect"
               ELSE /\ proc' = proc /\ err' = "start" /\ pc' = "defer"
    /\ UNCHANGED <<setup, watcher, sessv, applied, cntr, exists, removes, removeErr, attachStdin, attachOut, wrote, stream, eof,
                   pumpv, userv>>

\* RunInspect returning its error past the deferred cleanup
RunInspectNoCleanup ==
    /\ kind = "run" /\ pc = "inspect"
    /\ calls' = calls \cup {"ContainerInspect"}
    /\ \E ok \in BOOLEAN :
         IF ok THEN /\ cntr' = TRUE /\ err' = err /\ pc' = "ret"
               ELSE /\ cntr' = cntr /\ err' = "inspect" /\ pc' = "ret"
    /\ UNCHANGED <<setup, watcher, sessv, applied, exists, removes, removeErr, attachStdin, attachOut, procv, pumpv, userv>>

\* s.moby.ContainerInspect of the started container, then return cntr, nil
RunInspect ==
    /\ kind = "run" /\ pc = "inspect"
    /\ calls' = calls \cup {"ContainerInspect"}
    /\ \E ok \in BOOLEAN :
         IF ok THEN /\ cntr' = TRUE /\ err' = err /\ pc' = "ret"
               ELSE /\ cntr' = cntr /\ err' = "inspect" /\ pc' = "defer"
    /\ UNCHANGED <<setup, watcher, sessv, applied, exists, removes, removeErr, attachStdin, attachOut, procv, pumpv, userv>>

\* RunDeferredRemove handing the removal's error to the caller
RunDeferredRemoveMasking ==
    /\ kind = "run" /\ pc = "defer"
    /\ calls' = calls \cup {"ContainerRemove"}
    /\ removes' = removes + 1
    /\ \E ok \in BOOLEAN :
         IF ok THEN /\ exists' = FALSE /\ removeErr' = "nil" /\ err' = err
                    /\ proc' = IF proc = "running" THEN "exited" ELSE proc
                    /\ eof' = (attachResp # "nil")
               ELSE /\ exists' = exists /\ removeErr' = "error" /\ err' = "remove"
                    /\ proc' = proc /\ eof' = eof
    /\ pc' = "ret"
    /\ UNCHANGED <<setup, watcher, sessv, applied, cntr, attachStdin, attachOut, wrote, stream, pumpv, userv>>

\* defer: _ = s.moby.ContainerRemove(ctx, cntrID, Force: true); its error is
\* dropped.  A removal the engine carries out kills the process and ends the
\* attached stream.
RunDeferredRemove ==
    /\ kind = "run" /\ pc = "defer"
    /\ calls' = calls \cup {"ContainerRemove"}
    /\ removes' = removes + 1
    /\ \E ok \in BOOLEAN :
         IF ok THEN /\ exists' = FALSE /\ removeErr' = "nil"
                    /\ proc' = IF proc = "running" THEN "exited" ELSE proc
                    /\ eof' = (attachResp # "nil")
               ELSE /\ exists' = exists /\ removeErr' = "error"
                    /\ proc' = proc /\ eof' = eof
    /\ pc' = "ret"
    /\ UNCHANGED <<setup, watcher, sessv, applied, err, cntr, attachStdin, attachOut, wrote, stream, pumpv, userv>>

(***************************************************************************)
(* The stream pump of Session.Run                                          *)
(***************************************************************************)

\* CopyToOut handing every chunk to the output writer
CopyToOutCombined(f) == Append(Out, f.data)

\* what the output writer holds after one chunk has been copied: io.Copy to
\* copts.Out under a TTY, stdcopy.StdCopy(copts.Out, stderr, ...) otherwise
CopyToOut(f) ==
    IF copts.Tty THEN Append(Out, f.data)
    ELSE IF f.stream = STDERR
           THEN (IF copts.Err = "same" THEN Append(Out, f.data) ELSE Out)
           ELSE Append(Out, f.data)

\* CopyToErr taking the demultiplexing branch under a TTY as well
CopyToErrIgnoringTty(f) ==
    IF f.stream # STDOUT /\ copts.Err = "distinct"
      THEN Append(Err, f.data)
      ELSE Err

\* what the error writer holds after one chunk has been copied; a nil
\* copts.Err is io.Discard
CopyToErr(f) ==
    IF ~copts.Tty /\ f.stream = STDERR /\ copts.Err = "distinct"
      THEN Append(Err, f.data)
      ELSE Err

\* the output goroutine copies one chunk from attachResp.Reader
RunOutputCopy ==
    /\ kind = "run" /\ outpc = "copy"
    /\ stream # <<>>
    /\ Out' = CopyToOut(Head(stream))
    /\ Err' = CopyToErr(Head(stream))
    /\ stream' = Tail(stream)
    /\ UNCHANGED <<setup, watcher, sessv, callv, proc, wrote, eof, attachResp, connCloses, outpc,
                   inpc, done, stdinDone, allDone, inLeft, userv>>

\* the copy returns: EOF once the stream is drained, or an error (dropped)
RunOutputEnd ==
    /\ kind = "run" /\ outpc = "copy"
    /\ \E failed \in BOOLEAN : failed \/ (eof /\ stream = <<>>)
    /\ outpc' = "defer"
    /\ UNCHANGED <<setup, watcher, sessv, callv, procv, attachResp, connCloses, inpc, done,
                   stdinDone, allDone, Out, Err, inLeft, userv>>

\* RunOutputClose without the receive from done
RunOutputCloseEarly ==
    /\ kind = "run" /\ outpc = "defer"
    /\ attachResp' = "closed"
    /\ connCloses' = connCloses + 1
    /\ outpc' = "exit"
    /\ UNCHANGED <<setup, watcher, sessv, callv, procv, inpc, done, stdinDone, allDone, Out, Err,
                   inLeft, userv>>

\* defer func() { <-done; attachResp.Close() }()
RunOutputClose ==
    /\ kind = "run" /\ outpc = "defer"
    /\ done > 0
    /\ attachResp' = "closed"
    /\ connCloses' = connCloses + 1
    /\ outpc' = "exit"
    /\ UNCHANGED <<setup, watcher, sessv, callv, procv, inpc, done, stdinDone, allDone, Out, Err,
                   inLeft, userv>>

\* the input goroutine copies one chunk of copts.In to attachResp.Conn; the
\* write fails when the other side is gone, which ends the copy
RunInputCopy ==
    /\ kind = "run" /\ inpc = "copy"
    /\ inLeft > 0
    /\ inLeft' = inLeft - 1
    /\ \E ok \in BOOLEAN :
         /\ (~ok => proc = "exited")
         /\ IF ok THEN /\ inpc' = inpc /\ done' = done
                  ELSE /\ inpc' = "exit" /\ done' = done + 1
    /\ UNCHANGED <<setup, watcher, sessv, callv, procv, attachResp, connCloses, outpc, stdinDone,
                   allDone, Out, Err, userv>>

\* RunInputEnd without the deferred close(done)
RunInputEndNoClose ==
    /\ kind = "run" /\ inpc = "copy"
    /\ inLeft = 0 /\ inEnds
    /\ inpc' = "exit"
    /\ done' = done
    /\ UNCHANGED <<setup, watcher, sessv, callv, procv, attachResp, connCloses, outpc, stdinDone,
                   allDone, Out, Err, inLeft, userv>>

\* copts.In reports EOF: the copy returns, and the deferred close(done) runs
RunInputEnd ==
    /\ kind = "run" /\ inpc = "copy"
    /\ inLeft = 0 /\ inEnds
    /\ inpc' = "exit"
    /\ done' = done + 1
    /\ UNCHANGED <<setup, watcher, sessv, callv, procv, attachResp, connCloses, outpc, stdinDone,
                   allDone, Out, Err, inLeft, userv>>

(***************************************************************************)
(* Container.Exec                                                          *)
(***************************************************************************)

\* for _, opt := range opts { if err := opt(&exopts); err != nil { return ... } }
ExecOptions ==
    /\ kind = "exec" /\ pc = "opts"
    /\ applied' = Invoked
    /\ IF optFail[Invoked]
         THEN /\ err' = "option" /\ pc' = "ret"
         ELSE /\ err' = err /\ pc' = "inspect"
    /\ UNCHANGED <<setup, watcher, sessv, cntr, calls, exists, removes, removeErr, attachStdin, attachOut, procv, pumpv, userv>>

\* ExecInspectContainer going on to create the exec whatever the inspect says
ExecInspectContainerIgnoringError ==
    /\ kind = "exec" /\ pc = "inspect"
    /\ calls' = calls \cup {"ContainerInspect"}
    /\ \E ok \in BOOLEAN :
         IF ok THEN /\ err' = err /\ pc' = "create"
               ELSE /\ err' = "inspect" /\ pc' = "create"
    /\ UNCHANGED <<setup, watcher, sessv, applied, cntr, exists, removes, removeErr, attachStdin, attachOut, procv, pumpv, userv>>

\* the dummy c.Session.moby.ContainerInspect before the exec is created
ExecInspectContainer ==
    /\ kind = "exec" /\ pc = "inspect"
    /\ calls' = calls \cup {"ContainerInspect"}
    /\ \E ok \in BOOLEAN :
         IF ok THEN /\ err' = err /\ pc' = "create"
               ELSE /\ err' = "inspect" /\ pc' = "ret"
    /\ UNCHANGED <<setup, watcher, sessv, applied, cntr, exists, removes, removeErr, attachStdin, attachOut, procv, pumpv, userv>>

\* ExecCreate asking for stdin whether or not an input reader was supplied
ExecCreateAttachingStdin ==
    /\ kind = "exec" /\ pc = "create"
    /\ calls' = calls \cup {"ContainerExecCreate"}
    /\ attachStdin' = TRUE
    /\ attachOut' = {"Stdout", "Stderr"}
    /\ \E ok \in BOOLEAN :
         IF ok THEN /\ err' = err /\ pc' = "attach"
               ELSE /\ err' = "create" /\ pc' = "ret"
    /\ UNCHANGED <<setup, watcher, sessv, applied, cntr, exists, removes, removeErr, procv, pumpv, userv>>

\* c.Session.moby.ContainerExecCreate with exopts.Conf, in which AttachStdout
\* and AttachStderr are set and AttachStdin = exopts.In != nil
ExecCreate ==
    /\ kind = "exec" /\ pc = "create"
    /\ calls' = calls \cup {"ContainerExecCreate"}
    /\ attachStdin' = copts.In
    /\ attachOut' = {"Stdout", "Stderr"}
    /\ \E ok \in BOOLEAN :
         IF ok THEN /\ err' = err /\ pc' = "attach"
               ELSE /\ err' = "create" /\ pc' = "ret"
    /\ UNCHANGED <<setup, watcher, sessv, applied, cntr, exists, removes, removeErr, procv, pumpv, userv>>

\* c.Session.moby.ContainerExecAttach: attaching starts the command
ExecAttach ==
    /\ kind = "exec" /\ pc = "attach"
    /\ calls' = calls \cup {"ContainerExecAttach"}
    /\ \E ok \in BOOLEAN :
         IF ok THEN /\ attachResp' = "open" /\ proc' = "running"
                    /\ err' = err /\ pc' = "go_out"
               ELSE /\ attachResp' = attachResp /\ proc' = proc
                    /\ err' = "attach" /\ pc' = "ret"
    /\ UNCHANGED <<setup, watcher, sessv, applied, cntr, exists, removes, removeErr, attachStdin, attachOut, wrote, stream, eof,
                   connCloses, outpc, inpc, done, stdinDone, allDone, Out, Err,
                   inLeft, userv>>

\* stdinDone, allDone := make(chan struct{}), ...; go func() { ...output... }()
ExecGoOutput ==
    /\ kind = "exec" /\ pc = "go_out"
    /\ outpc' = "copy"
    /\ pc' = "go_in"
    /\ UNCHANGED <<setup, watcher, sessv, applied, err, cntr, calls, exists, removes, removeErr, attachStdin, attachOut, procv,
                   attachResp, connCloses, inpc, done, stdinDone, allDone, Out, Err,
                   inLeft, userv>>

\* ExecGoInput closing stdinDone itself although it starts the input goroutine
ExecGoInputClosing ==
    /\ kind = "exec" /\ pc = "go_in"
    /\ inpc' = IF copts.In THEN "copy" ELSE inpc
    /\ stdinDone' = stdinDone + 1
    /\ cntr' = TRUE
    /\ pc' = "ret"
    /\ UNCHANGED <<setup, watcher, sessv, applied, err, calls, exists, removes, removeErr, attachStdin, attachOut, procv,
                   attachResp, connCloses, outpc, done, allDone, Out, Err,
                   inLeft, userv>>

\* if exopts.In != nil { go func() { ...input... }() } else { close(stdinDone) };
\* return &ExecSession{done: allDone}, nil
ExecGoInput ==
    /\ kind = "exec" /\ pc = "go_in"
    /\ IF copts.In THEN /\ inpc' = "copy" /\ stdinDone' = stdinDone
                   ELSE /\ inpc' = inpc /\ stdinDone' = stdinDone + 1
    /\ cntr' = TRUE
    /\ pc' = "ret"
    /\ UNCHANGED <<setup, watcher, sessv, applied, err, calls, exists, removes, removeErr, attachStdin, attachOut, procv,
                   attachResp, connCloses, outpc, done, allDone, Out, Err,
                   inLeft, userv>>

(***************************************************************************)
(* The stream pump of Container.Exec                                       *)
(***************************************************************************)

\* the output goroutine copies one chunk from attachResp.Reader
ExecOutputCopy ==
    /\ kind = "exec" /\ outpc = "copy"
    /\ stream # <<>>
    /\ Out' = CopyToOut(Head(stream))
    /\ Err' = CopyToErr(Head(stream))
    /\ stream' = Tail(stream)
    /\ UNCHANGED <<setup, watcher, sessv, callv, proc, wrote, eof, attachResp, connCloses, outpc,
                   inpc, done, stdinDone, allDone, inLeft, userv>>

\* the copy returns: EOF once the stream is drained, or an error (dropped)
ExecOutputEnd ==
    /\ kind = "exec" /\ outpc = "copy"
    /\ \E failed \in BOOLEAN : failed \/ (eof /\ stream = <<>>)
    /\ outpc' = "defer"
    /\ UNCHANGED <<setup, watcher, sessv, callv, procv, attachResp, connCloses, inpc, done,
                   stdinDone, allDone, Out, Err, inLeft, userv>>

\* ExecOutputClose without the receive from stdinDone
ExecOutputCloseEarly ==
    /\ kind = "exec" /\ outpc = "defer"
    /\ attachResp' = "closed"
    /\ connCloses' = connCloses + 1
    /\ outpc' = "signal"
    /\ UNCHANGED <<setup, watcher, sessv, callv, procv, inpc, done, stdinDone, allDone, Out, Err,
                   inLeft, userv>>

\* defer func() { <-stdinDone; attachResp.Close(); ... }()
ExecOutputClose ==
    /\ kind = "exec" /\ outpc = "defer"
    /\ stdinDone > 0
    /\ attachResp' = "closed"
    /\ connCloses' = connCloses + 1
    /\ outpc' = "signal"
    /\ UNCHANGED <<setup, watcher, sessv, callv, procv, inpc, done, stdinDone, allDone, Out, Err,
                   inLeft, userv>>

\* defer func() { ...; close(allDone) }()
ExecOutputSignal ==
    /\ kind = "exec" /\ outpc = "signal"
    /\ allDone' = allDone + 1
    /\ outpc' = "exit"
    /\ UNCHANGED <<setup, watcher, sessv, callv, procv, attachResp, connCloses, inpc, done,
                   stdinDone, Out, Err, inLeft, userv>>

\* the input goroutine copies one chunk of exopts.In to attachResp.Conn; the
\* write fails when the other side is gone, which ends the copy
ExecInputCopy ==
    /\ kind = "exec" /\ inpc = "copy"
    /\ inLeft > 0
    /\ inLeft' = inLeft - 1
    /\ \E ok \in BOOLEAN :
         /\ (~ok => proc = "exited")
         /\ IF ok THEN /\ inpc' = inpc /\ stdinDone' = stdinDone
                  ELSE /\ inpc' = "exit" /\ stdinDone' = stdinDone + 1
    /\ UNCHANGED <<setup, watcher, sessv, callv, procv, attachResp, connCloses, outpc, done,
                   allDone, Out, Err, userv>>

\* exopts.In reports EOF: the copy returns, and the deferred close(stdinDone) runs
ExecInputEnd ==
    /\ kind = "exec" /\ inpc = "copy"
    /\ inLeft = 0 /\ inEnds
    /\ inpc' = "exit"
    /\ stdinDone' = stdinDone + 1
    /\ UNCHANGED <<setup, watcher, sessv, callv, procv, attachResp, connCloses, outpc, done,
                   allDone, Out, Err, inLeft, userv>>

(***************************************************************************)
(* The engine's side of the hijacked connection                            *)
(***************************************************************************)

\* the process writes a chunk to its stdout or stderr; the engine frames it
\* with the stream's tag, or passes it on raw under a TTY
ProcessWrite ==
    /\ proc = "running"
    /\ Len(wrote) < nOut
    /\ \E s \in {STDOUT, STDERR} :
         /\ wrote' = Append(wrote, [stream |-> s, data |-> Len(wrote) + 1])
         /\ stream' = IF attachResp = "open"
                        THEN Append(stream, [stream |-> IF copts.Tty THEN RAW ELSE s,
                                             data |-> Len(wrote) + 1])
                        ELSE stream
    /\ UNCHANGED <<setup, watcher, sessv, callv, proc, eof, pumpv, userv>>

\* the process exits; the engine ends the stream behind the chunks written
ProcessExit ==
    /\ proc = "running"
    /\ proc' = "exited"
    /\ eof' = TRUE
    /\ UNCHANGED <<setup, watcher, sessv, callv, wrote, stream, pumpv, userv>>

\* cancel() of the context handed to Wait and PID; cancellation is looked at
\* in the scenarios whose process writes nothing
Cancel ==
    /\ ~ctxDone
    /\ nOut = 0
    /\ ctxDone' = TRUE
    /\ UNCHANGED <<setup, watcher, sessv, callv, procv, pumpv, wait, pid, timer>>

(***************************************************************************)
(* Container.Wait and ExecSession.Wait                                     *)
(***************************************************************************)

\* waitch, errch := c.Session.moby.ContainerWait(ctx, c.ID, ...)
ContainerWaitCall ==
    /\ kind = "run" /\ cntr
    /\ wait.pc = "idle"
    /\ wait' = [wait EXCEPT !.pc = "select", !.ctx0 = ctxDone]
    /\ UNCHANGED <<setup, watcher, sessv, callv, procv, pumpv, ctxDone, pid, timer>>

\* case <-waitch: return nil -- the engine reports the container not running
ContainerWaitResult ==
    /\ kind = "run"
    /\ wait.pc = "select"
    /\ proc = "exited"
    /\ wait' = [wait EXCEPT !.pc = "ret", !.err = "nil"]
    /\ UNCHANGED <<setup, watcher, sessv, callv, procv, pumpv, ctxDone, pid, timer>>

\* case err := <-errch: return fmt.Errorf("waiting ... failed, reason: %w", err)
\* -- the engine reports an error of its own or the context's error
ContainerWaitError ==
    /\ kind = "run"
    /\ wait.pc = "select"
    /\ \E e \in {"wrap:engine"} \cup (IF ctxDone THEN {"wrap:ctx"} ELSE {}) :
         wait' = [wait EXCEPT !.pc = "ret", !.err = e]
    /\ UNCHANGED <<setup, watcher, sessv, callv, procv, pumpv, ctxDone, pid, timer>>

\* entering ExecSession.Wait
ExecWaitCall ==
    /\ kind = "exec" /\ cntr
    /\ wait.pc = "idle"
    /\ wait' = [wait EXCEPT !.pc = "select", !.ctx0 = ctxDone, !.open0 = (allDone = 0)]
    /\ UNCHANGED <<setup, watcher, sessv, callv, procv, pumpv, ctxDone, pid, timer>>

\* ExecWaitSelect with a default case that goes on to the inspect
ExecWaitSelectDefault ==
    /\ kind = "exec"
    /\ wait.pc = "select"
    /\ \/ /\ ctxDone
          /\ wait' = [wait EXCEPT !.pc = "ret", !.err = "ctx", !.code = 0]
       \/ wait' = [wait EXCEPT !.pc = "inspect"]
    /\ UNCHANGED <<setup, watcher, sessv, callv, procv, pumpv, ctxDone, pid, timer>>

\* select { case <-ctx.Done(): return 0, ctx.Err(); case <-e.done: }
\* -- when both are ready, either case may be taken
ExecWaitSelect ==
    /\ kind = "exec"
    /\ wait.pc = "select"
    /\ \/ /\ ctxDone
          /\ wait' = [wait EXCEPT !.pc = "ret", !.err = "ctx", !.code = 0]
       \/ /\ allDone > 0
          /\ wait' = [wait EXCEPT !.pc = "inspect"]
    /\ UNCHANGED <<setup, watcher, sessv, callv, procv, pumpv, ctxDone, pid, timer>>

\* the results of ContainerExecInspect
\* the result of an inspect call that failed
ExecInspectError == [Failed |-> TRUE, Running |-> FALSE, Pid |-> 0]

ExecInspectResults ==
    {ExecInspectError} \cup [Failed : {FALSE}, Running : BOOLEAN, Pid : {0, ThePid}]

\* ExecWaitInspect taking the exit code of a command reported running
ExecWaitInspectIgnoringRunning ==
    /\ kind = "exec"
    /\ wait.pc = "inspect"
    /\ \E r \in ExecInspectResults :
         wait' = [wait EXCEPT !.pc = "ret", !.n = @ + 1,
                    !.running = r.Running,
                    !.err = IF r.Failed THEN "wrap:engine" ELSE "nil",
                    !.code = IF ~r.Failed THEN TheExitCode ELSE 0]
    /\ UNCHANGED <<setup, watcher, sessv, callv, procv, pumpv, ctxDone, pid, timer>>

\* inspRes, err := ...ContainerExecInspect(ctx, e.ID) and the return
ExecWaitInspect ==
    /\ kind = "exec"
    /\ wait.pc = "inspect"
    /\ \E r \in ExecInspectResults :
         wait' = [wait EXCEPT !.pc = "ret", !.n = @ + 1,
                    !.running = r.Running,
                    !.err = IF r.Failed THEN "wrap:engine"
                            ELSE IF r.Running THEN "alive" ELSE "nil",
                    !.code = IF ~r.Failed /\ ~r.Running THEN TheExitCode ELSE 0]
    /\ UNCHANGED <<setup, watcher, sessv, callv, procv, pumpv, ctxDone, pid, timer>>

(***************************************************************************)
(* ExecSession.Done                                                        *)
(***************************************************************************)

\* whether a channel of Exec is closed
Closed(ch) ==
    CASE ch = "allDone" -> allDone > 0
      [] ch = "stdinDone" -> stdinDone > 0
      [] OTHER -> FALSE

\* Done handing out the channel of the input goroutine
DoneOfInput == "stdinDone"

\* func (e *ExecSession) Done() chan struct{} { return e.done }, the session
\* having been built as &ExecSession{..., done: allDone}
Done == "allDone"

\* a caller takes the channel from es.Done(); such callers are looked at in
\* the polling scenarios, next to the callers of Wait and PID
DoneCall ==
    /\ kind = "exec" /\ cntr /\ poller
    /\ watcher.pc = "idle"
    /\ watcher' = [pc |-> "recv", ch |-> Done, open0 |-> ~Closed(Done)]
    /\ UNCHANGED <<setup, callv, procv, pumpv, userv, sessv>>

\* <-es.Done(): the receive returns once the channel is closed
DoneReceive ==
    /\ watcher.pc = "recv"
    /\ Closed(watcher.ch)
    /\ watcher' = [watcher EXCEPT !.pc = "seen"]
    /\ UNCHANGED <<setup, callv, procv, pumpv, userv, sessv>>

(***************************************************************************)
(* Sleep                                                                   *)
(***************************************************************************)

\* the runtime fires the timer created by time.NewTimer(d)
TimerFire ==
    /\ timer = "armed"
    /\ timer' = "expired"
    /\ UNCHANGED <<setup, watcher, sessv, callv, procv, pumpv, ctxDone, wait, pid>>

\* SleepSelect with a timer.Stop() that may report false for a timer whose
\* expiry never arrives on timer.C
SleepSelectStale ==
    /\ pid.pc = "sleep"
    /\ \/ /\ ctxDone
          /\ \E stopped \in BOOLEAN :
               pid' = [pid EXCEPT !.pc = IF stopped THEN "slept" ELSE "drain",
                                  !.nap = "ctx"]
          /\ timer' = IF timer = "armed" THEN "unset" ELSE timer
       \/ /\ timer = "expired"
          /\ pid' = [pid EXCEPT !.pc = "slept", !.nap = "nil",
                                     !.naps = Counted(@, MaxPoll - 1)]
          /\ timer' = "unset"
    /\ UNCHANGED <<setup, watcher, sessv, callv, procv, pumpv, ctxDone, wait>>

\* select { case <-ctx.Done(): ...; case <-timer.C: } -- when both are ready,
\* either case may be taken.  In the first case timer.Stop() reports false only
\* for an expired timer whose value is still buffered; it is received at once.
SleepSelect ==
    /\ pid.pc = "sleep"
    /\ \/ /\ ctxDone
          /\ \E stopped \in BOOLEAN :
               /\ (~stopped => timer = "expired")
               /\ pid' = [pid EXCEPT !.pc = IF stopped THEN "slept" ELSE "drain",
                                     !.nap = "ctx"]
          /\ timer' = IF timer = "armed" THEN "unset" ELSE timer
       \/ /\ timer = "expired"
          /\ pid' = [pid EXCEPT !.pc = "slept", !.nap = "nil",
                                     !.naps = Counted(@, MaxPoll - 1)]
          /\ timer' = "unset"
    /\ UNCHANGED <<setup, watcher, sessv, callv, procv, pumpv, ctxDone, wait>>

\* if !timer.Stop() { <-timer.C }; return ctx.Err()
SleepDrain ==
    /\ pid.pc = "drain"
    /\ timer = "expired"
    /\ timer' = "unset"
    /\ pid' = [pid EXCEPT !.pc = "slept", !.drained = TRUE]
    /\ UNCHANGED <<setup, watcher, sessv, callv, procv, pumpv, ctxDone, wait>>

(***************************************************************************)
(* Container.PID                                                           *)
(***************************************************************************)

\* the results of ContainerInspect: an error, no State, or a State
NoState == [Failed |-> FALSE, State |-> FALSE, Pid |-> 0, Running |-> FALSE,
            Dead |-> FALSE, OOMKilled |-> FALSE, Restarting |-> FALSE]

ContainerInspectResults ==
    {[NoState EXCEPT !.Failed = TRUE], NoState} \cup
    [Failed : {FALSE}, State : {TRUE}, Pid : {0, ThePid}, Running : BOOLEAN,
     Dead : BOOLEAN, OOMKilled : BOOLEAN, Restarting : BOOLEAN]

\* ContainerHasPid asking for the Running flag as well
ContainerHasPidRunning(r) == r.State /\ r.Running /\ r.Pid # 0

\* inspRes.State != nil && inspRes.State.Pid != 0
ContainerHasPid(r) == r.State /\ r.Pid # 0

\* ContainerIsGone without the look at Restarting
ContainerIsGoneIgnoringRestart(r) ==
    r.State /\ (r.Dead \/ r.OOMKilled)

\* inspRes.State != nil && ((Dead || OOMKilled) && !Restarting)
ContainerIsGone(r) ==
    r.State /\ (r.Dead \/ r.OOMKilled) /\ ~r.Restarting

\* entering Container.PID
ContainerPIDCall ==
    /\ kind = "run" /\ cntr /\ poller
    /\ pid.pc = "idle"
    /\ pid' = [pid EXCEPT !.pc = "inspect", !.ctx0 = ctxDone]
    /\ UNCHANGED <<setup, watcher, sessv, callv, procv, pumpv, ctxDone, wait, timer>>

\* one round of the loop up to Sleep: inspect, return the PID or an error, or
\* create Sleep's timer
ContainerPIDInspect ==
    /\ kind = "run"
    /\ pid.pc = "inspect"
    /\ \E r \in ContainerInspectResults :
         /\ pid' = [pid EXCEPT
                      !.n = Counted(@, MaxPoll),
                      !.insp = r,
                      !.clean = (pid.n = 0) \/ (@ /\ pid.insp.Pid = 0),
                      !.restarted = @ \/ (pid.n > 0 /\ pid.insp.Pid = 0
                                            /\ pid.insp.Restarting
                                            /\ (pid.insp.Dead \/ pid.insp.OOMKilled)),
                      !.pc = IF r.Failed \/ ContainerHasPid(r) \/ ContainerIsGone(r)
                               THEN "ret" ELSE "sleep",
                      !.pid = IF ContainerHasPid(r) THEN r.Pid ELSE 0,
                      !.err = IF r.Failed THEN "wrap:engine"
                              ELSE IF ContainerHasPid(r) THEN "nil"
                              ELSE IF ContainerIsGone(r) THEN "state" ELSE "nil"]
         /\ timer' = IF r.Failed \/ ContainerHasPid(r) \/ ContainerIsGone(r)
                       THEN timer ELSE "armed"
    /\ UNCHANGED <<setup, watcher, sessv, callv, procv, pumpv, ctxDone, wait>>

\* ContainerPIDSlept returning Sleep's error as it is
ContainerPIDSleptVerbatim ==
    /\ kind = "run"
    /\ pid.pc = "slept"
    /\ pid' = IF pid.nap = "nil"
                THEN [pid EXCEPT !.pc = "inspect"]
                ELSE [pid EXCEPT !.pc = "ret", !.pid = 0, !.err = "ctx"]
    /\ UNCHANGED <<setup, watcher, sessv, callv, procv, pumpv, ctxDone, wait, timer>>

\* if err := Sleep(ctx, DefaultSleep); err != nil { return 0, fmt.Errorf(...%w) }
ContainerPIDSlept ==
    /\ kind = "run"
    /\ pid.pc = "slept"
    /\ pid' = IF pid.nap = "nil"
                THEN [pid EXCEPT !.pc = "inspect"]
                ELSE [pid EXCEPT !.pc = "ret", !.pid = 0, !.err = "wrap:ctx"]
    /\ UNCHANGED <<setup, watcher, sessv, callv, procv, pumpv, ctxDone, wait, timer>>

(***************************************************************************)
(* ExecSession.PID                                                         *)
(***************************************************************************)

\* ExecHasPid without the look at Running
ExecHasPidIgnoringRunning(r) == r.Pid # 0

\* inspRes.Running && inspRes.Pid != 0
ExecHasPid(r) == r.Running /\ r.Pid # 0

\* entering ExecSession.PID
ExecPIDCall ==
    /\ kind = "exec" /\ cntr /\ poller
    /\ pid.pc = "idle"
    /\ pid' = [pid EXCEPT !.pc = "inspect", !.ctx0 = ctxDone, !.open0 = (allDone = 0)]
    /\ UNCHANGED <<setup, watcher, sessv, callv, procv, pumpv, ctxDone, wait, timer>>

\* inspRes, err := ...ContainerExecInspect(ctx, e.ID): return the error or the
\* PID, or go on to look at e.done
ExecPIDInspect ==
    /\ kind = "exec"
    /\ pid.pc = "inspect"
    /\ \E r \in ExecInspectResults :
         pid' = [pid EXCEPT
                   !.n = Counted(@, MaxPoll),
                   !.insp = r,
                   !.clean = (pid.n = 0) \/ (@ /\ pid.insp.Pid = 0),
                   !.pc = IF r.Failed \/ ExecHasPid(r) THEN "ret" ELSE "check",
                   !.pid = IF ExecHasPid(r) THEN r.Pid ELSE 0,
                   !.err = IF r.Failed THEN "wrap:engine" ELSE "nil"]
    /\ UNCHANGED <<setup, watcher, sessv, callv, procv, pumpv, ctxDone, wait, timer>>

\* ExecPIDCheckDone giving up whether or not e.done is closed
ExecPIDCheckDoneAlways ==
    /\ kind = "exec"
    /\ pid.pc = "check"
    /\ pid' = [pid EXCEPT !.pc = "ret", !.pid = 0, !.err = "terminated"]
    /\ timer' = timer
    /\ UNCHANGED <<setup, watcher, sessv, callv, procv, pumpv, ctxDone, wait>>

\* ExecPIDCheckDone without the look at e.done
ExecPIDCheckDoneNever ==
    /\ kind = "exec"
    /\ pid.pc = "check"
    /\ pid' = [pid EXCEPT !.pc = "sleep"]
    /\ timer' = "armed"
    /\ UNCHANGED <<setup, watcher, sessv, callv, procv, pumpv, ctxDone, wait>>

\* select { case <-e.done: return 0, errors.New("command has already
\* terminated"); default: } and then the creation of Sleep's timer
ExecPIDCheckDone ==
    /\ kind = "exec"
    /\ pid.pc = "check"
    /\ IF allDone > 0
         THEN /\ pid' = [pid EXCEPT !.pc = "ret", !.pid = 0, !.err = "terminated"]
              /\ timer' = timer
         ELSE /\ pid' = [pid EXCEPT !.pc = "sleep"]
              /\ timer' = "armed"
    /\ UNCHANGED <<setup, watcher, sessv, callv, procv, pumpv, ctxDone, wait>>

\* ExecPIDSlept with Sleep's error dropped
ExecPIDSleptDroppingError ==
    /\ kind = "exec"
    /\ pid.pc = "slept"
    /\ pid' = IF pid.nap = "nil"
                THEN [pid EXCEPT !.pc = "inspect"]
                ELSE [pid EXCEPT !.pc = "ret", !.pid = 0, !.err = "nil"]
    /\ UNCHANGED <<setup, watcher, sessv, callv, procv, pumpv, ctxDone, wait, timer>>

\* if err := Sleep(ctx, DefaultSleep); err != nil { return 0, err }
ExecPIDSlept ==
    /\ kind = "exec"
    /\ pid.pc = "slept"
    /\ pid' = IF pid.nap = "nil"
                THEN [pid EXCEPT !.pc = "inspect"]
                ELSE [pid EXCEPT !.pc = "ret", !.pid = 0, !.err = "ctx"]
    /\ UNCHANGED <<setup, watcher, sessv, callv, procv, pumpv, ctxDone, wait, timer>>

(***************************************************************************)
(* NewSession, Session.AutoClean and Session.Close                         *)
(***************************************************************************)

\* the lists the engine may return for the set S, in any order
Listings(S) ==
    {l \in [1..Cardinality(S) -> S] : \A i, j \in 1..Cardinality(S) : l[i] = l[j] => i = j}

\* NewSession: the options are applied and the client is created, either of
\* which may fail; then s.AutoClean(ctx) is entered
NewSession ==
    /\ kind = "session" /\ sess = "none"
    /\ \E ok \in BOOLEAN :
         IF ok THEN /\ sess' = "new"
                    /\ ac' = [IdleAutoClean EXCEPT !.pc = "start"]
               ELSE /\ sess' = "failed"
                    /\ ac' = ac
    /\ UNCHANGED <<setup, watcher, callv, procv, pumpv, userv, lcntrs, lnets, rmlog>>

\* s.AutoClean(ctx) has returned: return s, nil
NewSessionReturn ==
    /\ sess = "new" /\ ac.pc = "ret"
    /\ sess' = "open"
    /\ ac' = [ac EXCEPT !.pc = "idle"]
    /\ UNCHANGED <<setup, watcher, callv, procv, pumpv, userv, lcntrs, lnets, rmlog>>

\* the test leaves a labelled container or network behind
LeaveBehind ==
    /\ kind = "session" /\ sess = "open"
    /\ \/ /\ \E c \in (1..MaxCntrs) \ lcntrs : lcntrs' = lcntrs \cup {c}
          /\ lnets' = lnets
       \/ /\ \E n \in (1..MaxNets) \ lnets : lnets' = lnets \cup {n}
          /\ lcntrs' = lcntrs
    /\ UNCHANGED <<setup, watcher, callv, procv, pumpv, userv, sess, ac, rmlog>>

\* Session.Close: s.AutoClean(ctx) is entered
SessionClose ==
    /\ kind = "session" /\ sess = "open" /\ ac.pc = "idle"
    /\ sess' = "closing"
    /\ ac' = [IdleAutoClean EXCEPT !.pc = "start"]
    /\ rmlog' = <<>>
    /\ UNCHANGED <<setup, watcher, callv, procv, pumpv, userv, lcntrs, lnets>>

\* s.AutoClean(ctx) has returned: s.moby.Close()
SessionCloseClient ==
    /\ sess = "closing" /\ ac.pc = "ret"
    /\ sess' = "closed"
    /\ ac' = [ac EXCEPT !.pc = "idle"]
    /\ UNCHANGED <<setup, watcher, callv, procv, pumpv, userv, lcntrs, lnets, rmlog>>

\* if s.opts.AutoCleaningLabel == "" { return }; cntrs, err :=
\* s.moby.ContainerList(...); if err != nil { return }
AutoCleanListContainers ==
    /\ ac.pc = "start"
    /\ IF ~label
         THEN ac' = [ac EXCEPT !.pc = "ret"]
         ELSE \/ ac' = [ac EXCEPT !.pc = "ret"]
              \/ \E l \in Listings(lcntrs) :
                   ac' = [ac EXCEPT !.cntrs = l, !.i = 0,
                                    !.pc = IF l = <<>> THEN "nets" ELSE "remove"]
    /\ UNCHANGED <<setup, watcher, callv, procv, pumpv, userv, lcntrs, lnets, sess, rmlog>>

\* AutoCleanRemoveContainer going on to the next container after an error
AutoCleanRemoveContainerContinuing ==
    /\ ac.pc = "remove"
    /\ \E ok \in BOOLEAN :
         LET c == ac.cntrs[ac.i + 1] IN
           /\ ok => c \in lcntrs
           /\ rmlog' = Append(rmlog, [what |-> "container", id |-> c,
                                      force |-> TRUE, ok |-> ok])
           /\ lcntrs' = IF ok THEN lcntrs \ {c} ELSE lcntrs
           /\ ac' = [ac EXCEPT !.i = @ + 1,
                               !.pc = IF ac.i + 1 = Len(ac.cntrs)
                                        THEN "nets" ELSE "remove"]
    /\ UNCHANGED <<setup, watcher, callv, procv, pumpv, userv, lnets, sess>>

\* one round of for _, cntr := range cntrs: s.moby.ContainerRemove(ctx,
\* cntr.ID, Force: true, RemoveVolumes: true); if err != nil { return }
AutoCleanRemoveContainer ==
    /\ ac.pc = "remove"
    /\ \E ok \in BOOLEAN :
         LET c == ac.cntrs[ac.i + 1] IN
           /\ ok => c \in lcntrs
           /\ rmlog' = Append(rmlog, [what |-> "container", id |-> c,
                                      force |-> TRUE, ok |-> ok])
           /\ lcntrs' = IF ok THEN lcntrs \ {c} ELSE lcntrs
           /\ ac' = [ac EXCEPT !.i = @ + 1,
                               !.pc = IF ~ok THEN "ret"
                                      ELSE IF ac.i + 1 = Len(ac.cntrs)
                                        THEN "nets" ELSE "remove"]
    /\ UNCHANGED <<setup, watcher, callv, procv, pumpv, userv, lnets, sess>>

\* nets, err := s.moby.NetworkList(...); if err != nil { return }
AutoCleanListNetworks ==
    /\ ac.pc = "nets"
    /\ \/ ac' = [ac EXCEPT !.pc = "ret"]
       \/ \E l \in Listings(lnets) :
            ac' = [ac EXCEPT !.nets = l, !.i = 0,
                             !.pc = IF l = <<>> THEN "ret" ELSE "rmnet"]
    /\ UNCHANGED <<setup, watcher, callv, procv, pumpv, userv, lcntrs, lnets, sess, rmlog>>

\* one round of for _, net := range nets: s.moby.NetworkRemove(ctx, net.ID);
\* if err != nil { return }
AutoCleanRemoveNetwork ==
    /\ ac.pc = "rmnet"
    /\ \E ok \in BOOLEAN :
         LET n == ac.nets[ac.i + 1] IN
           /\ ok => n \in lnets
           /\ rmlog' = Append(rmlog, [what |-> "network", id |-> n,
                                      force |-> FALSE, ok |-> ok])
           /\ lnets' = IF ok THEN lnets \ {n} ELSE lnets
           /\ ac' = [ac EXCEPT !.i = @ + 1,
                               !.pc = IF ~ok \/ ac.i + 1 = Len(ac.nets)
                                        THEN "ret" ELSE "rmnet"]
    /\ UNCHANGED <<setup, watcher, callv, procv, pumpv, userv, lcntrs, sess>>

(***************************************************************************)
(* Properties                                                              *)
(***************************************************************************)

\* the chunks the process wrote to stream s are all in what the writer w holds
Received(s, w) ==
    \A i \in 1..Len(wrote) :
        wrote[i].stream = s => \E j \in 1..Len(w) : w[j] = wrote[i].data

\* Wait has returned without an error
WaitSucceeded == wait.pc = "ret" /\ wait.err = "nil"

\* C1: in every non-TTY run, once Wait has returned, every chunk the process
\* wrote to stdout before it exited is in the output writer
C1_NoLostOutput ==
    (~copts.Tty /\ WaitSucceeded /\ proc = "exited") => Received(STDOUT, Out)

\* C2: ContainerStart is invoked only after ContainerAttach has succeeded and
\* the output goroutine, and the input goroutine when there is an input
\* reader, have been spawned
C2_AttachBeforeStart ==
    "ContainerStart" \in calls =>
        /\ "ContainerAttach" \in calls
        /\ attachResp # "nil"
        /\ outpc # "none"
        /\ copts.In => inpc # "none"
        /\ ~copts.In => done = 1

C2_Witness ==
    /\ "ContainerStart" \in calls /\ copts.In /\ proc = "running"

\* Run has returned an error after ContainerCreate succeeded
RunFailedAfterCreate ==
    kind = "run" /\ pc = "ret" /\ err \in {"attach", "start", "inspect"}

C4_DoneAfterDrain ==
    /\ allDone <= 1
    /\ allDone > 0 =>
        /\ outpc = "exit"
        /\ stdinDone = 1
        /\ inpc = IF copts.In THEN "exit" ELSE "none"
        /\ attachResp = "closed"

C4_Witness ==
    kind = "exec" /\ allDone = 1 /\ copts.In /\ inpc = "exit"

\* C5: in Run and in Exec the connection is closed at most once, and only
\* after the output copy has ended and input is done
C5_CloseAfterDrain ==
    /\ connCloses <= 1
    /\ (attachResp = "closed") <=> (connCloses = 1)
    /\ connCloses > 0 =>
        /\ outpc \in {"signal", "exit"}
        /\ inpc # "copy"
        /\ IF kind = "run" THEN done = 1 ELSE stdinDone = 1

C5_Witness ==
    kind = "run" /\ connCloses = 1 /\ copts.In /\ inpc = "exit"

\* C6: ExecSession.Wait inspects only after the completion signal has fired,
\* and returns an exit code with a nil error only then
C6_InspectAfterDone ==
    kind = "exec" =>
        /\ wait.pc = "inspect" => allDone > 0
        /\ wait.n > 0 => allDone > 0
        /\ WaitSucceeded => allDone > 0 /\ wait.n = 1

C6_Witness ==
    kind = "exec" /\ WaitSucceeded /\ wait.code = TheExitCode /\ wait.open0

\* C7: after Wait has returned successfully, no drain goroutine of the run is
\* still running
C7_NoDrainAfterWait ==
    WaitSucceeded => outpc \in {"none", "exit"} /\ inpc \in {"none", "exit"}

\* the PID call was made after the completion signal had fired
PIDAfterDone == kind = "exec" /\ pid.pc # "idle" /\ ~pid.open0

\* C8 as claimed: once the completion signal has fired, every call of
\* ExecSession.PID returns "command has already terminated", never a PID
C8_AlwaysTerminated ==
    (PIDAfterDone /\ pid.pc = "ret") => pid.err = "terminated" /\ pid.pid = 0

\* C8 as amended: once the completion signal has fired, a call of
\* ExecSession.PID returns after a single inspect and without sleeping:
\* the inspect's error if it failed, the PID if it reports the command Running
\* with a PID, and "command has already terminated" otherwise
C8_TerminatedUnlessInspected ==
    PIDAfterDone =>
        /\ pid.n <= 1 /\ pid.naps = 0
        /\ pid.pc \in {"inspect", "check", "ret"}
        /\ pid.pc = "ret" =>
             IF pid.insp.Failed THEN pid.err = "wrap:engine" /\ pid.pid = 0
             ELSE IF ExecHasPid(pid.insp) THEN pid.err = "nil" /\ pid.pid = pid.insp.Pid
             ELSE pid.err = "terminated" /\ pid.pid = 0

C8_Witness ==
    PIDAfterDone /\ pid.pc = "ret" /\ pid.err = "terminated" /\ WaitSucceeded

\* an error that is, or wraps, the context's error
CtxErrors == {"ctx", "wrap:ctx"}

\* an error an engine call made with a cancelled context returns may be the
\* context's error, which the caller wraps
MaybeCtxErrors == CtxErrors \cup {"wrap:engine"}

InspectUndecided ==
    /\ ~pid.insp.Failed
    /\ IF kind = "run"
         THEN ~ContainerHasPid(pid.insp) /\ ~ContainerIsGone(pid.insp)
         ELSE ~ExecHasPid(pid.insp) /\ pid.err # "terminated"

RetriedThenLatest ==
    /\ pid.n >= 1 /\ pid.clean /\ ~pid.insp.Failed
    /\ ~ctxDone
    /\ kind = "exec" => allDone = 0

\* the PID call has returned the PID of the latest inspect after n inspects
\* and n - 1 sleeps
ReturnedLatestPid ==
    /\ pid.pc = "ret" /\ pid.err = "nil" /\ pid.pid = pid.insp.Pid
    /\ pid.naps = pid.n - 1

\* C10 as claimed: if the first N inspects report no PID and inspect N+1
\* reports a PID, PID returns that PID after N+1 inspects and N sleeps
C10_RetryThenPid ==
    (RetriedThenLatest /\ pid.insp.Pid # 0) => ReturnedLatestPid

\* C10 as amended: if the first N inspects report no PID and inspect N+1
\* reports a PID and, for ExecSession.PID, reports the command Running, PID
\* returns that PID after N+1 inspects and N sleeps
C10_RetryThenRunningPid ==
    (RetriedThenLatest /\ pid.insp.Pid # 0 /\ (kind = "exec" => pid.insp.Running))
        => ReturnedLatestPid

C10_Witness ==
    /\ kind = "exec" /\ RetriedThenLatest /\ ReturnedLatestPid
    /\ pid.pid = ThePid /\ pid.n = MaxPoll /\ pid.naps = MaxPoll - 1

\* the latest inspect of Container.PID succeeded and carries no PID
InspectedNoPid ==
    /\ kind = "run" /\ pid.n >= 1
    /\ ~pid.insp.Failed
    /\ ~(pid.insp.State /\ pid.insp.Pid # 0)

\* the latest inspect reports a Dead or OOM-killed container that is not
\* restarting
ReportedGone ==
    pid.insp.State /\ (pid.insp.Dead \/ pid.insp.OOMKilled) /\ ~pid.insp.Restarting

\* C11: on an inspect result without a PID, Container.PID returns the state
\* error right after that inspect, with no further sleep or inspect, exactly
\* when the state is Dead or OOM-killed and not Restarting; otherwise it goes
\* on to sleep and poll, leaving only when Sleep reports the cancelled
\* context; and after a report of a restarting container it returns the PID
\* as soon as an inspect reports one
C11_GivesUpIffGone ==
    /\ (InspectedNoPid /\ ReportedGone) =>
          /\ pid.pc = "ret" /\ pid.err = "state" /\ pid.pid = 0
          /\ pid.naps = pid.n - 1
    /\ (InspectedNoPid /\ ~ReportedGone) =>
          /\ pid.err # "state"
          /\ pid.pc \in {"sleep", "drain", "slept", "inspect", "ret"}
          /\ pid.pc = "ret" => pid.nap = "ctx" /\ pid.err = "wrap:ctx"
    /\ (kind = "run" /\ pid.restarted /\ ~pid.insp.Failed
            /\ pid.insp.State /\ pid.insp.Pid # 0) =>
          pid.pc = "ret" /\ pid.err = "nil" /\ pid.pid = pid.insp.Pid

C11_Witness ==
    /\ kind = "run" /\ pid.restarted /\ pid.clean
    /\ pid.pc = "ret" /\ pid.err = "nil" /\ pid.pid = ThePid
    /\ pid.n >= 2 /\ pid.naps = pid.n - 1

\* a PID call is under way or over, the process has exited, the context is
\* alive, and the latest inspect, if any, reports what the engine reports of
\* a process that has exited for good: no PID, not running, not restarting
PollingTheExited ==
    /\ pid.pc # "idle" /\ proc = "exited" /\ ~ctxDone
    /\ pid.n >= 1 =>
          /\ ~pid.insp.Failed /\ pid.insp.Pid = 0 /\ ~pid.insp.Running
          /\ kind = "run" => pid.insp.State /\ ~pid.insp.Restarting

\* C12: with a context that is never cancelled, once the process has exited
\* for good and the engine reports no PID for it any more, the PID call
\* eventually returns an error
C12_PollingEnds ==
    <>[]PollingTheExited => <>(pid.pc = "ret" /\ pid.err # "nil")

\* C13: when the inspect ExecSession.Wait makes after the completion signal
\* reports the command running, Wait has returned right after it, with an
\* error that is not the engine's and exit code 0; Wait never inspects twice
C13_AliveIsAnError ==
    kind = "exec" =>
        /\ wait.n <= 1
        /\ (wait.n = 1 /\ wait.running) =>
              /\ allDone > 0
              /\ wait.pc = "ret" /\ wait.err = "alive" /\ wait.code = 0

C13_Witness ==
    /\ kind = "exec" /\ wait.n = 1 /\ wait.running /\ wait.pc = "ret"
    /\ wait.err = "alive" /\ proc = "exited" /\ allDone = 1

\* Run has returned the error of the inspect that follows ContainerStart
RunFailedOnInspect ==
    kind = "run" /\ pc = "ret" /\ err = "inspect"

\* C14 as claimed: when the inspect after a successful ContainerStart fails,
\* Run returns that error and leaves the container in place, without issuing
\* a removal
C14_LeftRunning ==
    RunFailedOnInspect => removes = 0 /\ "ContainerRemove" \notin calls /\ exists

\* C14 as amended: when the inspect after a successful ContainerStart fails,
\* Run returns that error and no Container, after the deferred cleanup has
\* issued one forced ContainerRemove for the started container; the container
\* stays only when that removal failed
C14_RemovedOnInspectFailure ==
    /\ (kind = "run" /\ err = "inspect") =>
          /\ "ContainerStart" \in calls /\ proc # "none"
          /\ ~cntr
          /\ pc \in {"defer", "ret"}
    /\ RunFailedOnInspect =>
          /\ removes = 1 /\ removeErr # "none"
          /\ removeErr = "nil" => ~exists /\ proc = "exited"
          /\ removeErr = "error" => exists

C14_Witness ==
    RunFailedOnInspect /\ removes = 1 /\ removeErr = "nil" /\ ~exists

\* C15: Container.Exec has called ContainerInspect whenever it has called, or
\* is about to call, ContainerExecCreate; and once that inspect has failed,
\* Exec returns the error and no handle, and ContainerExecCreate and
\* ContainerExecAttach are never called: no exec is created and no command
\* started
C15_InspectBeforeExecCreate ==
    kind = "exec" =>
        /\ (pc = "create" \/ "ContainerExecCreate" \in calls)
              => "ContainerInspect" \in calls /\ err # "inspect"
        /\ "ContainerExecAttach" \in calls => "ContainerExecCreate" \in calls
        /\ err = "inspect" =>
              /\ pc = "ret" /\ ~cntr
              /\ calls = {"ContainerInspect"}
              /\ attachStdin = "none" /\ attachResp = "nil" /\ proc = "none"
              /\ outpc = "none" /\ inpc = "none"

C15_Witness ==
    kind = "exec" /\ pc = "ret" /\ err = "inspect" /\ calls = {"ContainerInspect"}

\* the PID call, made with a live context, has returned because Sleep
\* reported the cancelled context
PIDCancelledAsleep ==
    pid.pc = "ret" /\ ~pid.ctx0 /\ pid.nap = "ctx"

\* the Wait call, made with a live context, has returned on the cancellation
WaitCancelledBlocked ==
    wait.pc = "ret" /\ ~wait.ctx0 /\ wait.n = 0 /\ wait.err \in CtxErrors

\* C16 as claimed: cancelled while Wait is blocked or PID is asleep, the call
\* returns the context's own error, neither wrapped nor replaced
C16_CtxErrVerbatim ==
    /\ PIDCancelledAsleep => pid.err = "ctx"
    /\ WaitCancelledBlocked => wait.err = "ctx"

\* C16 as amended: cancelled while Wait is blocked or PID is asleep, the call
\* is able to leave its select; ExecSession.Wait, returning without an
\* inspect, and ExecSession.PID, returning from Sleep, hand back the context's
\* own error, while Container.PID hands back an error that wraps Sleep's
\* error and Container.Wait one that wraps what ContainerWait delivered
C16_CtxErrWrappedByContainer ==
    /\ (wait.pc = "select" /\ ctxDone) =>
          IF kind = "exec" THEN ENABLED ExecWaitSelect ELSE ENABLED ContainerWaitError
    /\ (pid.pc = "sleep" /\ ctxDone) => ENABLED SleepSelect
    /\ PIDCancelledAsleep =>
          /\ ctxDone /\ pid.n >= 1 /\ pid.pid = 0
          /\ pid.err = IF kind = "run" THEN "wrap:ctx" ELSE "ctx"
    /\ (kind = "exec" /\ wait.pc = "ret" /\ ~wait.ctx0 /\ wait.n = 0) =>
          ctxDone /\ wait.err = "ctx" /\ wait.code = 0
    /\ (kind = "run" /\ wait.pc = "ret") =>
          /\ wait.err \in {"nil", "wrap:engine", "wrap:ctx"}
          /\ wait.err = "wrap:ctx" => ctxDone

C16_Witness ==
    /\ kind = "run" /\ PIDCancelledAsleep /\ pid.err = "wrap:ctx" /\ pid.naps >= 1
    /\ WaitCancelledBlocked /\ wait.err = "wrap:ctx"

\* the streams of the chunks the writer w holds
StreamsIn(w) == {wrote[w[j]].stream : j \in 1..Len(w)}

\* C17: without a TTY and with an error writer of its own, the output writer
\* holds only chunks the process wrote to stdout and the error writer only
\* chunks it wrote to stderr, each chunk at most once and in the order written
C17_StreamsKeptApart ==
    (~copts.Tty /\ copts.Err = "distinct") =>
        /\ StreamsIn(Out) \subseteq {STDOUT}
        /\ StreamsIn(Err) \subseteq {STDERR}
        /\ \A i, j \in 1..Len(Out) : i < j => Out[i] < Out[j]
        /\ \A i, j \in 1..Len(Err) : i < j => Err[i] < Err[j]

C17_Witness ==
    /\ kind = "run" /\ ~copts.Tty /\ copts.Err = "distinct"
    /\ StreamsIn(Out) = {STDOUT} /\ StreamsIn(Err) = {STDERR}
    /\ Len(Out) + Len(Err) = MaxOut /\ outpc = "exit"

\* the chunks that went onto the connection, those already copied first
OutThenStream == Out \o [i \in 1..Len(stream) |-> stream[i].data]

\* C18: under a TTY the chunks on the connection carry no stream header, the
\* output writer holds every chunk read from the connection in the order of
\* arrival, none lost and none twice, and the error writer holds nothing
C18_TtyCombined ==
    copts.Tty =>
        /\ Err = <<>>
        /\ \A i \in 1..Len(stream) : stream[i].stream = RAW
        /\ \A i \in 1..Len(OutThenStream) : OutThenStream[i] = i

C18_Witness ==
    /\ kind = "run" /\ copts.Tty /\ copts.Err = "distinct"
    /\ Len(Out) = MaxOut /\ StreamsIn(Out) = {STDOUT, STDERR}
    /\ Err = <<>> /\ outpc = "exit"

\* some option function passed to the call returns an error
SomeOptionFails == \E i \in 1..MaxOpts : optFail[i]

\* C19: when an option function returns an error, Run or Exec returns that
\* error right from the loop over the options: the failing option is the last
\* one invoked and none before it failed, no engine call has been made, no
\* connection opened, no process started and no goroutine spawned
C19_OptionErrorFailsFast ==
    /\ (SomeOptionFails /\ pc # "opts") => err = "option"
    /\ err = "option" =>
          /\ pc = "ret" /\ ~cntr
          /\ applied \in 1..MaxOpts /\ optFail[applied]
          /\ \A i \in 1..(applied - 1) : ~optFail[i]
          /\ calls = {} /\ removes = 0
          /\ attachStdin = "none" /\ attachResp = "nil" /\ proc = "none"
          /\ outpc = "none" /\ inpc = "none"
          /\ done = 0 /\ stdinDone = 0 /\ allDone = 0

C19_Witness ==
    /\ pc = "ret" /\ err = "option" /\ applied = 1
    /\ \A i \in 1..MaxOpts : optFail[i]

\* AutoClean has returned on a session with an auto-cleaning label
AutoCleaned == label /\ ac.pc = "ret"

\* the latest AutoClean call has made a removal call for the container c
ContainerRemoveCalled(c) ==
    \E k \in 1..Len(rmlog) :
        rmlog[k].what = "container" /\ rmlog[k].id = c /\ rmlog[k].force

\* the latest AutoClean call has made a removal call for the network n
NetworkRemoveCalled(n) ==
    \E k \in 1..Len(rmlog) : rmlog[k].what = "network" /\ rmlog[k].id = n

\* no removal call for a container comes after one for a network
ContainersBeforeNetworks ==
    \A k, m \in 1..Len(rmlog) :
        (k < m /\ rmlog[k].what = "network") => rmlog[m].what = "network"

ContainerRemovals ==
    Cardinality({k \in 1..Len(rmlog) : rmlog[k].what = "container"})

PIDSucceeded == pid.pc = "ret" /\ pid.err = "nil"

\* C21 as claimed: PID returns without an error exactly when its latest
\* inspect reports Running with a non-zero PID, and then returns that PID
C21_SuccessIffRunningPid ==
    /\ PIDSucceeded =>
          /\ pid.n >= 1 /\ ~pid.insp.Failed
          /\ pid.insp.Running /\ pid.insp.Pid # 0
          /\ pid.pid = pid.insp.Pid
    /\ (pid.n >= 1 /\ ~pid.insp.Failed /\ pid.insp.Running /\ pid.insp.Pid # 0)
          => PIDSucceeded

\* C21 as amended: PID returns without an error exactly when its latest
\* inspect reports a non-zero PID and, for ExecSession.PID, reports the
\* command Running; Container.PID takes the PID of any inspect result that
\* carries a State, whatever its Running flag says.  The PID returned is the
\* one of that inspect, never 0
C21_SuccessIffPid ==
    /\ PIDSucceeded =>
          /\ pid.n >= 1 /\ ~pid.insp.Failed
          /\ pid.insp.Pid # 0
          /\ IF kind = "exec" THEN pid.insp.Running ELSE pid.insp.State
          /\ pid.pid = pid.insp.Pid /\ pid.pid # 0
    /\ (pid.n >= 1 /\ ~pid.insp.Failed /\ pid.insp.Pid # 0
            /\ IF kind = "exec" THEN pid.insp.Running ELSE pid.insp.State)
          => PIDSucceeded
    /\ (pid.pc = "ret" /\ pid.err # "nil") => pid.pid = 0

C21_Witness ==
    /\ kind = "run" /\ PIDSucceeded /\ pid.pid = ThePid
    /\ pid.insp.State /\ ~pid.insp.Running

\* ExecSession.PID has returned "command has already terminated" only with
\* the completion signal fired and after an inspect without a running PID
TerminatedOnlyAfterDone ==
    (kind = "exec" /\ pid.pc = "ret" /\ pid.err = "terminated") =>
        /\ allDone > 0
        /\ pid.n >= 1 /\ ~pid.insp.Failed
        /\ ~(pid.insp.Running /\ pid.insp.Pid # 0)

\* the steps ExecSession.PID takes after an inspect without a running PID:
\* with the completion signal open it creates Sleep's timer; with the context
\* alive Sleep ends only by receiving the timer's expiry and returns nil; and
\* after a nil from Sleep comes the next inspect
PollsOnWhileOpen ==
    /\ (kind = "exec" /\ pid.pc = "check" /\ allDone = 0 /\ pid'.pc # "check") =>
          pid'.pc = "sleep" /\ timer' = "armed"
    /\ (kind = "exec" /\ pid.pc = "sleep" /\ ~ctxDone /\ pid'.pc # "sleep") =>
          pid'.pc = "slept" /\ pid'.nap = "nil" /\ timer = "expired"
    /\ (kind = "exec" /\ pid.pc = "slept" /\ pid.nap = "nil" /\ pid' # pid) =>
          pid'.pc = "inspect"

\* C22: ExecSession.PID returns "command has already terminated" only if the
\* completion signal had fired when it looked at it after an inspect without
\* a PID; while the signal is open and the context alive, such an inspect is
\* followed by a sleep and then by another inspect
C22_TerminatedOnlyIfDone ==
    []TerminatedOnlyAfterDone /\ [][PollsOnWhileOpen]_vars

C22_Witness ==
    /\ kind = "exec" /\ pid.pc = "ret" /\ pid.err = "terminated"
    /\ pid.open0 /\ pid.n = 2 /\ pid.naps = 1 /\ ~ctxDone

\* Run has returned after ContainerStart failed: the inspect that follows a
\* successful start has not been made
RunFailedOnStart ==
    /\ kind = "run" /\ pc = "ret"
    /\ "ContainerStart" \in calls /\ "ContainerInspect" \notin calls

\* C23: when ContainerStart fails, Run returns the start error and no
\* Container after one ContainerRemove, whatever that removal returned: a
\* failed removal leaves the container behind and the start error in place
C23_StartErrorSurvivesCleanup ==
    /\ RunFailedOnStart =>
          /\ err = "start" /\ ~cntr
          /\ removes = 1 /\ removeErr \in {"nil", "error"}
          /\ removeErr = "error" => exists
    /\ (kind = "run" /\ pc = "ret") =>
          err \in {"nil", "option", "hasimage", "pull", "create", "attach",
                   "start", "inspect"}

C23_Witness ==
    RunFailedOnStart /\ err = "start" /\ removeErr = "error" /\ exists

\* the call of Run or Exec has returned
CallReturned == kind \in {"run", "exec"} /\ pc = "ret"

\* the goroutines spawned so far are none
NoneSpawned == outpc = "none" /\ inpc = "none"

\* the goroutines spawned so far are the output goroutine and, exactly when
\* an input reader was supplied, the input goroutine
PairSpawned == outpc # "none" /\ (inpc # "none" <=> copts.In)

\* C24 as claimed: a call that fails in option processing, create or attach
\* has spawned no goroutine, every other call the output goroutine and, iff
\* there is an input reader, the input goroutine
C24_SpawnedUnlessOptCreateAttach ==
    CallReturned =>
        IF err \in {"option", "create", "attach"} THEN NoneSpawned ELSE PairSpawned

\* the call failed before its go statements: in option processing, in Run's
\* image check, pull or create, in Exec's container inspect or exec create,
\* or in the attach
FailedBeforeSpawn ==
    \/ err \in {"option", "hasimage", "pull", "create", "attach"}
    \/ kind = "exec" /\ err = "inspect"

\* a goroutine is spawned by the call's go statement only, starts in its
\* copy, and is never spawned a second time
SpawnedOnce ==
    /\ (outpc = "none" /\ outpc' # "none") => pc = "go_out" /\ outpc' = "copy"
    /\ (inpc = "none" /\ inpc' # "none") => pc = "go_in" /\ inpc' = "copy"
    /\ outpc # "none" => outpc' # "none"
    /\ inpc # "none" => inpc' # "none"
    /\ (outpc # "copy" /\ outpc' = "copy") => outpc = "none"
    /\ (inpc # "copy" /\ inpc' = "copy") => inpc = "none"

\* C24 as amended: a call that fails before its go statements has spawned no
\* goroutine; every other call has spawned the output goroutine once and,
\* exactly when an input reader was supplied, the input goroutine once
C24_SpawnedUnlessFailedBefore ==
    /\ [](CallReturned => IF FailedBeforeSpawn THEN NoneSpawned ELSE PairSpawned)
    /\ [](inpc # "none" => copts.In /\ outpc # "none")
    /\ [][SpawnedOnce]_vars

C24_Witness ==
    /\ kind = "run" /\ pc = "ret" /\ err = "start" /\ copts.In
    /\ outpc # "none" /\ inpc # "none"

\* Sleep is waiting in its select or for the timer's expiry after Stop
Sleeping == pid.pc \in {"sleep", "drain"}

SleepResult ==
    (pid.pc = "sleep" /\ pid'.pc # "sleep") =>
        /\ pid'.pc \in {"slept", "drain"}
        /\ pid'.nap = "nil" => timer = "expired" /\ pid'.pc = "slept"
        /\ pid'.nap = "ctx" => ctxDone
        /\ ~ctxDone => pid'.nap = "nil"

AttachRequested ==
    \/ kind = "run" /\ "ContainerAttach" \in calls
    \/ kind = "exec" /\ "ContainerExecCreate" \in calls

\* C26: the attach request of Run and of Exec always asks for stdout and for
\* stderr, and it asks for stdin if and only if an input reader was supplied
C26_AttachesOutAndOptionalIn ==
    AttachRequested =>
        /\ attachOut = {"Stdout", "Stderr"}
        /\ attachStdin = copts.In

C26_Witness ==
    /\ kind = "exec" /\ "ContainerExecCreate" \in calls
    /\ ~copts.In /\ attachStdin = FALSE
    /\ attachOut = {"Stdout", "Stderr"}
    /\ pc = "ret" /\ err = "nil"

\* Exec was handed an input reader that reports neither EOF nor an error
InputUnending == kind = "exec" /\ copts.In /\ ~inEnds

\* the completion signal has not fired: Done() is open, the connection is not
\* closed, and a Wait call has got past its select only by way of ctx.Done()
CompletionPending ==
    /\ allDone = 0
    /\ attachResp # "closed" /\ connCloses = 0
    /\ wait.pc # "inspect"
    /\ wait.pc = "ret" => wait.err = "ctx"

\* C27 as claimed: with an input reader that never reaches EOF or an error
\* the completion signal never fires, whatever the command and its output do
C27_UnendingInputNeverCompletes == InputUnending => CompletionPending

\* C27 as amended: with such an input reader the completion signal does not
\* fire as long as the input goroutine's copy goes on, also after the command
\* exited and its output ended; the copy can still end, and completion fire,
\* when a write of the reader's data to the connection fails
C27_CopyingInputNeverCompletes ==
    /\ InputUnending /\ inpc # "exit" => CompletionPending
    /\ InputUnending /\ inpc = "exit" => proc = "exited" /\ inLeft < MaxIn

C27_Witness ==
    /\ InputUnending /\ inpc = "copy" /\ inLeft = 0
    /\ proc = "exited" /\ eof /\ stream = <<>> /\ outpc = "defer"
    /\ allDone = 0 /\ attachResp = "open"
    /\ wait.pc = "ret" /\ wait.err = "ctx" /\ ~wait.ctx0

\* Run has returned the error of ContainerStart or of the inspect that
\* follows it: the attach had succeeded and the goroutines were spawned
RunFailedAfterAttach == kind = "run" /\ pc = "ret" /\ err \in {"start", "inspect"}

\* every goroutine Run spawned has exited and the connection is closed
DrainsGone ==
    /\ outpc = "exit" /\ inpc \in {"none", "exit"}
    /\ attachResp = "closed"

ClosedByOutputOnly ==
    (kind = "run" /\ attachResp' = "closed" /\ attachResp # "closed") =>
        /\ outpc = "defer" /\ outpc' = "exit"
        /\ done > 0 /\ done' = done
        /\ pc' = pc

OneShot ==
    /\ allDone' >= allDone /\ allDone' <= 1
    /\ (wait' # wait \/ pid' # pid \/ watcher' # watcher) => allDone' = allDone

\* what the readers of the signal see: Wait and a receiver from Done() get
\* past the channel only when it is closed, and PID reports the command
\* terminated exactly when it finds the channel closed
ReadersSeeClosure ==
    /\ (kind = "exec" /\ wait.pc = "select" /\ wait'.pc = "inspect") => allDone = 1
    /\ (watcher.pc = "recv" /\ watcher'.pc = "seen") => allDone = 1
    /\ (kind = "exec" /\ pid.pc = "check" /\ pid'.pc # "check") =>
          (allDone = 1 <=> pid'.pc = "ret" /\ pid'.err = "terminated")

\* C29: the completion signal of an ExecSession is one-shot and has many
\* readers: every Done() call returns the channel the output goroutine
\* closes, the signal only ever changes from open to closed, Wait, PID and
\* receivers from Done() all observe the closure without using it up: once
\* it has fired a receive from Done() can return, and every Wait caller
\* blocked on the signal proceeds
C29_OneShotManyReaders ==
    /\ [](watcher.pc # "idle" => watcher.ch = "allDone")
    /\ [][OneShot]_vars
    /\ [][ReadersSeeClosure]_vars
    /\ [](watcher.pc = "recv" /\ allDone = 1 => ENABLED DoneReceive)
    /\ ((kind = "exec" /\ wait.pc = "select" /\ allDone = 1) ~> wait.pc # "select")

C29_Witness ==
    /\ kind = "exec" /\ allDone = 1
    /\ wait.pc = "ret" /\ wait.open0 /\ wait.n = 1
    /\ watcher.pc = "seen" /\ watcher.open0
    /\ pid.pc = "ret" /\ pid.open0 /\ pid.err = "terminated"

\* C30: Run calls ContainerRemove at most once, on its way out; once it has
\* returned, it has called it if and only if it returns the error of the
\* attach, of the start or of the inspect that follow a successful
\* ContainerCreate: never with a Container handed back, and never with the
\* error of an option, of the image check, of the pull or of the create
C30_RemoveOnceIffFailedAfterCreate ==
    kind = "run" =>
        /\ removes <= 1
        /\ removes = 1 <=> "ContainerRemove" \in calls
        /\ removes = 1 => pc = "ret" /\ "ContainerCreate" \in calls
        /\ pc = "ret" =>
              /\ removes = 1 <=> err \in {"attach", "start", "inspect"}
              /\ cntr \/ err \in {"option", "hasimage", "pull", "create"} => removes = 0
              /\ cntr <=> err = "nil"

C30_Witness ==
    /\ kind = "run" /\ pc = "ret" /\ err = "attach"
    /\ removes = 1 /\ "ContainerStart" \notin calls

Next ==
    \/ RunOptions
    \/ RunHasImage
    \/ RunPullImage
    \/ RunCreate
    \/ RunAttach
    \/ RunGoOutput
    \/ RunGoInput
    \/ RunStart
    \/ RunInspect
    \/ RunDeferredRemove
    \/ RunOutputCopy
    \/ RunOutputEnd
    \/ RunOutputClose
    \/ RunInputCopy
    \/ RunInputEnd
    \/ ExecOptions
    \/ ExecInspectContainer
    \/ ExecCreate
    \/ ExecAttach
    \/ ExecGoOutput
    \/ ExecGoInput
    \/ ExecOutputCopy
    \/ ExecOutputEnd
    \/ ExecOutputClose
    \/ ExecOutputSignal
    \/ ExecInputCopy
    \/ ExecInputEnd
    \/ ProcessWrite
    \/ ProcessExit
    \/ Cancel
    \/ ContainerWaitCall
    \/ ContainerWaitResult
    \/ ContainerWaitError
    \/ ExecWaitCall
    \/ ExecWaitSelect
    \/ ExecWaitInspect
    \/ DoneCall
    \/ DoneReceive
    \/ TimerFire
    \/ SleepSelect
    \/ SleepDrain
    \/ ContainerPIDCall
    \/ ContainerPIDInspect
    \/ ContainerPIDSlept
    \/ ExecPIDCall
    \/ ExecPIDInspect
    \/ ExecPIDCheckDone
    \/ ExecPIDSlept
    \/ NewSession
    \/ NewSessionReturn
    \/ LeaveBehind
    \/ SessionClose
    \/ SessionCloseClient
    \/ AutoCleanListContainers
    \/ AutoCleanRemoveContainer
    \/ AutoCleanListNetworks
    \/ AutoCleanRemoveNetwork

Spec == Init /\ [][Next]_vars

(***************************************************************************)
(* Scheduling: the Go runtime keeps running every goroutine that can take  *)
(* a step and fires every armed timer.  Nothing obliges the engine's       *)
(* process to write or exit, the caller to cancel or to call Wait or PID,  *)
(* the engine to fail a pending ContainerWait, or the connection to fail   *)
(* under a copy that has not seen the end of the stream.                   *)
(***************************************************************************)

\* the goroutine that called Session.Run or Container.Exec
CallStep ==
    \/ RunOptions \/ RunHasImage \/ RunPullImage \/ RunCreate \/ RunAttach
    \/ RunGoOutput \/ RunGoInput \/ RunStart \/ RunInspect \/ RunDeferredRemove
    \/ ExecOptions \/ ExecInspectContainer \/ ExecCreate \/ ExecAttach
    \/ ExecGoOutput \/ ExecGoInput

\* the output goroutine; its copy is bound to return at the end of the stream
OutputStep ==
    \/ RunOutputCopy \/ (RunOutputEnd /\ eof /\ stream = <<>>) \/ RunOutputClose
    \/ ExecOutputCopy \/ (ExecOutputEnd /\ eof /\ stream = <<>>)
    \/ ExecOutputClose \/ ExecOutputSignal

\* the input goroutine
InputStep ==
    RunInputCopy \/ RunInputEnd \/ ExecInputCopy \/ ExecInputEnd

\* the goroutine that called NewSession or Session.Close
SessionStep ==
    \/ NewSession \/ NewSessionReturn \/ SessionCloseClient
    \/ AutoCleanListContainers \/ AutoCleanRemoveContainer
    \/ AutoCleanListNetworks \/ AutoCleanRemoveNetwork

\* the goroutine inside Wait
WaitStep ==
    ContainerWaitResult \/ ExecWaitSelect \/ ExecWaitInspect

\* the goroutine inside PID and Sleep
PIDStep ==
    \/ ContainerPIDInspect \/ ContainerPIDSlept
    \/ ExecPIDInspect \/ ExecPIDCheckDone \/ ExecPIDSlept
    \/ SleepSelect \/ SleepDrain

FairSpec ==
    /\ Spec
    /\ WF_vars(CallStep)
    /\ WF_vars(OutputStep)
    /\ WF_vars(InputStep)
    /\ WF_vars(WaitStep)
    /\ WF_vars(SessionStep)
    /\ WF_vars(PIDStep)
    /\ WF_vars(DoneReceive)
    /\ WF_vars(TimerFire)

\* the scheduling Sleep relies on: the goroutine inside it runs and its timer
\* fires
SleepFairSpec == Spec /\ WF_vars(PIDStep) /\ WF_vars(TimerFire)

\* the scheduling the goroutines spawned by Run and Exec rely on
DrainFairSpec == Spec /\ WF_vars(OutputStep) /\ WF_vars(InputStep)

\* the scheduling a caller of Wait relies on
WaitFairSpec == Spec /\ WF_vars(WaitStep)
====
